---- MODULE Spec2Model ----
(***************************************************************************)
(* ProjectContextGenerator (script4.py): the inclusion decision, the tree  *)
(* renderer and the report assembler, as a state machine over a small file *)
(* system.  A path is the sequence of its parts (pathlib's Path.parts); a  *)
(* file on disk has a byte size and the outcome of the binary sniff.       *)
(***************************************************************************)
EXTENDS Integers, Sequences, FiniteSets, TLC

\* ---- bounds ----------------------------------------------------------------
\* at most MaxFiles user files exist when the first scan starts
MaxFiles == 3
\* at most MaxRuns calls of generate_context_file in one behaviour
MaxRuns == 2
\* at most MaxReadErrors content reads raise in one behaviour
MaxReadErrors == 1

\* file sizes and byte budgets the inputs are drawn from
Sizes == {5, 20, 90}
Budgets == {25, 100}

\* ---- names and paths ---------------------------------------------------------
\* every file or directory name of the model, in Python's str order
NameOrder ==
  <<"a.txt", "b.txt", "build", "ctx.txt", "dist", "lib", "m.txt", "out",
    "sub", "z.txt">>

\* files a user may have under the scanned root
UserPaths ==
  { <<"a.txt">>, <<"b.txt">>, <<"build", "lib", "m.txt">>, <<"dist">>,
    <<"sub", "z.txt">> }

\* the paths output_file may name
OutputPaths == { <<"ctx.txt">>, <<"out", "ctx.txt">> }

AllPaths == UserPaths \cup OutputPaths

\* name of the directory the scan runs in (Path(".").resolve().name)
RootName == "project"

\* Path.name: the last part
Name(p) == p[Len(p)]

\* Path.parent, as the sequence of the directory's parts (<<>> is Path("."))
Parent(p) == SubSeq(p, 1, Len(p) - 1)

\* str(Path): the parts joined by "/"
RECURSIVE PathStr(_)
PathStr(p) ==
  IF Len(p) = 1 THEN p[1]
  ELSE PathStr(SubSeq(p, 1, Len(p) - 1)) \o "/" \o p[Len(p)]

\* Path.suffix of a name
Suffix(n) ==
  IF n \in {"a.txt", "b.txt", "ctx.txt", "m.txt", "z.txt"} THEN ".txt" ELSE ""

\* mimetypes.guess_type by suffix ("" is None)
GuessType(n) ==
  IF Suffix(n) = ".txt" THEN "text/plain" ELSE ""

\* str.startswith("text") on the mime types above
StartsWithText(m) == m = "text/plain"

\* position of a name in Python's str order
NameRank(n) == CHOOSE i \in 1..Len(NameOrder) : NameOrder[i] = n

\* tuple comparison of two parts tuples (Path.__lt__ compares the parts)
RECURSIVE PartsLess(_, _)
PartsLess(p, q) ==
  IF p = <<>> THEN q # <<>>
  ELSE IF q = <<>> THEN FALSE
  ELSE IF p[1] # q[1] THEN NameRank(p[1]) < NameRank(q[1])
  ELSE PartsLess(Tail(p), Tail(q))

\* list.sort() / sorted(..., key=parts) of a set of distinct paths
RECURSIVE SortPaths(_)
SortPaths(S) ==
  IF S = {} THEN <<>>
  ELSE LET m == CHOOSE x \in S : \A y \in S \ {x} : PartsLess(x, y)
       IN <<m>> \o SortPaths(S \ {m})

\* ---- state -----------------------------------------------------------------
VARIABLES
  disk,                     \* the regular files under the root: path -> [size, binary]
  written,                  \* what the output path holds: [exists, n, doc]
  output_file,              \* self.output_file (a string)
  max_total_combined_size,  \* self.max_total_combined_size
  file_info,                \* self.file_info: path -> [included, reason, size]
  total_included_size,      \* self.total_included_size
  pc,                       \* position in generate_context_file
  all_files,                \* local all_files (sorted list of paths)
  idx,                      \* loop index into all_files (1-based)
  tree_text,                \* local tree_text, as its list of lines
  included_content_lines,   \* local included_content_lines, the blocks appended
  output,                   \* local output: the assembled document
  prior,                    \* what the output path held when the run started
  last_doc,                 \* the document of the previous completed run
  read_errors,              \* files whose content read raised (the "Error reading" log lines of this run)
  nerrors,                  \* number of content reads that raised so far
  runs                      \* number of generate_context_file calls so far

vars ==
  <<disk, written, output_file, max_total_combined_size, file_info,
    total_included_size, pc, all_files, idx, tree_text,
    included_content_lines, output, prior, last_doc, read_errors,
    nerrors, runs>>

\* ---- configuration (__init__) ----------------------------------------------
\* Path(__file__).name
self_script_name == "script4.py"

\* self.ignore_files: the ignore_files argument of __main__, the output file
\* string and the script's own name
ignore_files == {".env"} \cup {output_file} \cup {self_script_name}

\* self.ignore_dirs as passed by __main__
ignore_dirs ==
  {".git", "node_modules", "dist", "build", ".next", ".cache",
   "build_backup", "build_new", "dataconnect-generated", "fav", "public"}

\* the path open(self.output_file, "w") writes
OutputPath == CHOOSE p \in OutputPaths : PathStr(p) = output_file

\* ---- text classifier -------------------------------------------------------
binary_exts ==
  {".png", ".jpg", ".jpeg", ".gif", ".ico", ".svg", ".woff", ".woff2",
   ".ttf", ".eot", ".otf", ".mp3", ".mp4", ".webm", ".ogg", ".pdf",
   ".zip", ".gz", ".rar", ".7z"}

\* _binary_sniff: the file's first bytes hold a null byte or too many
\* non-ASCII bytes, or the file cannot be read
binary_sniff(file_path) == disk[file_path].binary

is_text_file(file_path) ==
  LET mime_type == GuessType(Name(file_path)) IN
  IF Suffix(Name(file_path)) \in binary_exts THEN FALSE
  ELSE IF mime_type # "" /\ ~StartsWithText(mime_type)
       THEN IF mime_type = "application/octet-stream"
            THEN ~binary_sniff(file_path)
            ELSE FALSE
       ELSE ~binary_sniff(file_path)

\* ---- exclusion rules -------------------------------------------------------
should_ignore(file_path) ==
  \/ Name(file_path) \in ignore_files
  \/ \E i \in 1..Len(file_path) : file_path[i] \in ignore_dirs

\* ---- enumeration -----------------------------------------------------------
\* gather_files: every regular file below the root, sorted by path
gather_files == SortPaths(DOMAIN disk)

\* ---- inclusion decider -----------------------------------------------------
ReasonIgnored == "Excluded: ignored by name/dir"
ReasonBinary == "Excluded: binary or non-text"
ReasonBudget(budget) ==
  "Excluded: adding this would exceed " \o ToString(budget) \o " bytes limit"
ReasonIncluded == "Included"

\* decide_inclusion without the budget check
decide_no_budget(file_path, size, total) ==
  IF should_ignore(file_path)
  THEN [info |-> [included |-> FALSE, reason |-> ReasonIgnored, size |-> size],
        total |-> total]
  ELSE IF ~is_text_file(file_path)
  THEN [info |-> [included |-> FALSE, reason |-> ReasonBinary, size |-> size],
        total |-> total]
  ELSE [info |-> [included |-> TRUE, reason |-> ReasonIncluded, size |-> size],
        total |-> total + size]

\* decide_inclusion with >= in place of > in the budget check
decide_ge(file_path, size, total) ==
  IF should_ignore(file_path)
  THEN [info |-> [included |-> FALSE, reason |-> ReasonIgnored, size |-> size],
        total |-> total]
  ELSE IF ~is_text_file(file_path)
  THEN [info |-> [included |-> FALSE, reason |-> ReasonBinary, size |-> size],
        total |-> total]
  ELSE IF total + size >= max_total_combined_size
  THEN [info |-> [included |-> FALSE,
                  reason |-> ReasonBudget(max_total_combined_size),
                  size |-> size],
        total |-> total]
  ELSE [info |-> [included |-> TRUE, reason |-> ReasonIncluded, size |-> size],
        total |-> total + size]

\* decide_inclusion that adds the size before the budget check and keeps it
decide_consumes(file_path, size, total) ==
  IF should_ignore(file_path)
  THEN [info |-> [included |-> FALSE, reason |-> ReasonIgnored, size |-> size],
        total |-> total]
  ELSE IF ~is_text_file(file_path)
  THEN [info |-> [included |-> FALSE, reason |-> ReasonBinary, size |-> size],
        total |-> total]
  ELSE IF total + size > max_total_combined_size
  THEN [info |-> [included |-> FALSE,
                  reason |-> ReasonBudget(max_total_combined_size),
                  size |-> size],
        total |-> total + size]
  ELSE [info |-> [included |-> TRUE, reason |-> ReasonIncluded, size |-> size],
        total |-> total + size]

\* decide_inclusion on file_path of the given size with the running total
\* `total`: the record stored in file_info and the new running total
decide_inclusion(file_path, size, total) ==
  IF should_ignore(file_path)
  THEN [info |-> [included |-> FALSE, reason |-> ReasonIgnored, size |-> size],
        total |-> total]
  ELSE IF ~is_text_file(file_path)
  THEN [info |-> [included |-> FALSE, reason |-> ReasonBinary, size |-> size],
        total |-> total]
  ELSE IF total + size > max_total_combined_size
  THEN [info |-> [included |-> FALSE,
                  reason |-> ReasonBudget(max_total_combined_size),
                  size |-> size],
        total |-> total]
  ELSE [info |-> [included |-> TRUE, reason |-> ReasonIncluded, size |-> size],
        total |-> total + size]

\* ---- tree renderer ---------------------------------------------------------
\* Path.is_dir(): the path is a directory on disk, i.e. some file lies below it
is_dir(path) ==
  \E q \in DOMAIN disk : Len(q) > Len(path) /\ SubSeq(q, 1, Len(path)) = path

\* "   " * level
RECURSIVE Indent(_)
Indent(level) == IF level = 0 THEN "" ELSE "   " \o Indent(level - 1)

\* the status suffix of a file line
StatusStr(info) ==
  IF info.included THEN "[Included]" ELSE "[" \o info.reason \o "]"

\* dir_map[rel_dir]: the recorded paths whose parent is rel_dir, in the order
\* of all_paths, then sorted by name
dir_map(rel_dir) ==
  SortSeq(SelectSeq(SortPaths(DOMAIN file_info),
                    LAMBDA p : Parent(p) = rel_dir),
          LAMBDA a, b : NameRank(Name(a)) < NameRank(Name(b)))

RECURSIVE print_tree_recursive(_, _)
RECURSIVE PrintEntries(_, _, _)

\* the loop over the entries of one directory
PrintEntries(entries, rel_dir, level) ==
  IF entries = <<>> THEN <<>>
  ELSE LET path == Head(entries)
           name == Name(path)
           here ==
             IF is_dir(path)
             THEN <<Indent(level) \o name \o "/ [DIR]">>
                  \o print_tree_recursive(rel_dir \o <<name>>, level + 1)
             ELSE <<Indent(level) \o name \o " " \o StatusStr(file_info[path])>>
       IN here \o PrintEntries(Tail(entries), rel_dir, level)

\* _print_tree_recursive: the lines appended for rel_dir
print_tree_recursive(rel_dir, level) ==
  IF \E p \in DOMAIN file_info : Parent(p) = rel_dir
  THEN PrintEntries(dir_map(rel_dir), rel_dir, level)
  ELSE <<>>

\* build_project_tree: the list of lines that is joined by "\n"
build_project_tree ==
  <<RootName \o "/">> \o print_tree_recursive(<<>>, 1)

\* ---- report assembler ------------------------------------------------------
\* the introduction (its text is fixed; IntroLen is its length)
introduction == "# Introduction"
IntroLen == 537

ContentHeader == "\n\n---\n## Included Files Content\n\n"
SeparatorLen == 40

\* the block appended for an included file that was read: the header line and
\* the length of the text read
content_block(f) == [header |-> "// File: " \o PathStr(f), size |-> disk[f].size]

\* the content loop without the test of info["included"]
append_content_any(lines, f, info, read_ok) ==
  IF read_ok THEN Append(lines, content_block(f)) ELSE lines

\* one iteration of the content loop: the new included_content_lines
append_content(lines, f, info, read_ok) ==
  IF info.included /\ read_ok THEN Append(lines, content_block(f)) ELSE lines

\* number of records that are not included
excluded_count == Cardinality({p \in DOMAIN file_info : ~file_info[p].included})

\* the numbers of the summary section
excluded_count_info ==
  [included |-> Cardinality(DOMAIN file_info) - excluded_count,
   excluded |-> excluded_count,
   total |-> total_included_size]

EmptyDoc ==
  [introduction |-> "", tree_text |-> <<>>, content |-> <<>>,
   summary |-> [included |-> 0, excluded |-> 0, total |-> 0]]

\* output = introduction + tree_text + "".join(lines) + excluded_count_info
compose_output ==
  [introduction |-> introduction, tree_text |-> tree_text,
   content |-> included_content_lines, summary |-> excluded_count_info]

RECURSIVE SumLen(_)
SumLen(lines) ==
  IF lines = <<>> THEN 0 ELSE Len(Head(lines)) + SumLen(Tail(lines))

RECURSIVE SumBlocks(_)
SumBlocks(blocks) ==
  IF blocks = <<>> THEN 0
  ELSE Len(Head(blocks).header) + 1 + SeparatorLen + 1 + Head(blocks).size + 2
       + SumBlocks(Tail(blocks))

SummaryLen(s) ==
  Len("\n\n---\n## Summary\n\n")
  + Len("Total included files: " \o ToString(s.included) \o "\n")
  + Len("Total excluded files: " \o ToString(s.excluded) \o "\n")
  + Len("Total included content size: " \o ToString(s.total) \o " bytes\n")

\* length of each of the four sections of a document
SectionLen(doc, i) ==
  CASE i = 1 -> IntroLen
    [] i = 2 -> SumLen(doc.tree_text) + Len(doc.tree_text) - 1
    [] i = 3 -> Len(ContentHeader) + SumBlocks(doc.content)
    [] i = 4 -> SummaryLen(doc.summary)

\* the first n sections of a document: what the file holds after they were flushed
Prefix(doc, n) ==
  [introduction |-> IF n >= 1 THEN doc.introduction ELSE "",
   tree_text |-> IF n >= 2 THEN doc.tree_text ELSE <<>>,
   content |-> IF n >= 3 THEN doc.content ELSE <<>>,
   summary |-> IF n >= 4 THEN doc.summary ELSE EmptyDoc.summary]

RECURSIVE PrefixLen(_, _)
PrefixLen(doc, n) ==
  IF n = 0 THEN 0 ELSE SectionLen(doc, n) + PrefixLen(doc, n - 1)

NumSections == 4

NoFile == [exists |-> FALSE, n |-> 0, doc |-> EmptyDoc]

\* ---- initial states ---------------------------------------------------------
\* what a file on disk can be: a text file of some size, or a small binary
\* one; a file named like an ignored directory is the small binary one and a
\* file below an ignored directory the small text one
FileStates(p) ==
  IF Name(p) \in ignore_dirs
  THEN {[size |-> 5, binary |-> TRUE]}
  ELSE IF \E i \in 1..Len(p) : p[i] \in ignore_dirs
  THEN {[size |-> 5, binary |-> FALSE]}
  ELSE [size : Sizes, binary : {FALSE}] \cup {[size |-> 5, binary |-> TRUE]}

\* the trees a first scan may find: at most MaxFiles user files
InitialDisks ==
  UNION { {d \in [S -> UNION {FileStates(p) : p \in S}] :
             \A p \in S : d[p] \in FileStates(p)} :
          S \in {T \in SUBSET UserPaths : Cardinality(T) <= MaxFiles} }

\* the state after ProjectContextGenerator(...) was constructed
Init ==
  /\ disk \in InitialDisks
  /\ written = NoFile
  /\ output_file \in {PathStr(p) : p \in OutputPaths}
  /\ max_total_combined_size \in Budgets
  /\ file_info = <<>>
  /\ total_included_size = 0
  /\ pc = "idle"
  /\ all_files = <<>>
  /\ idx = 1
  /\ tree_text = <<>>
  /\ included_content_lines = <<>>
  /\ output = EmptyDoc
  /\ prior = NoFile
  /\ last_doc = [valid |-> FALSE, doc |-> EmptyDoc]
  /\ read_errors = {}
  /\ nerrors = 0
  /\ runs = 0

config_vars == <<output_file, max_total_combined_size>>

\* the counters that only the start of a run and a failed read change
count_vars == <<nerrors, runs>>

\* no call of generate_context_file is in progress and none has raised
Resting == pc \in {"idle", "done"}

\* ---- generate_context_file, step by step -----------------------------------
\* 1) all_files = self.gather_files(base_path)
GatherFiles ==
  /\ Resting
  /\ runs < MaxRuns
  /\ runs' = runs + 1
  /\ all_files' = gather_files
  /\ idx' = 1
  /\ pc' = "decide"
  /\ prior' = written
  /\ last_doc' = IF pc = "done"
                 THEN [valid |-> TRUE, doc |-> output]
                 ELSE [valid |-> FALSE, doc |-> EmptyDoc]
  /\ read_errors' = {}
  /\ UNCHANGED <<disk, written, config_vars, file_info, total_included_size,
                 tree_text, included_content_lines, output, nerrors>>

\* 2) one iteration of "for f in all_files: self.decide_inclusion(f)"
DecideStep ==
  /\ pc = "decide"
  /\ idx <= Len(all_files)
  /\ LET f == all_files[idx]
         d == decide_inclusion(f, disk[f].size, total_included_size)
     IN /\ file_info' = [p \in DOMAIN file_info \cup {f} |->
                           IF p = f THEN d.info ELSE file_info[p]]
        /\ total_included_size' = d.total
  /\ idx' = idx + 1
  /\ UNCHANGED <<disk, written, config_vars, pc, all_files, tree_text,
                 included_content_lines, output, prior, last_doc, read_errors,
                 count_vars>>

\* 3) tree_text = self.build_project_tree(base_path)
BuildTree ==
  /\ pc = "decide"
  /\ idx > Len(all_files)
  /\ tree_text' = build_project_tree
  /\ included_content_lines' = <<>>
  /\ idx' = 1
  /\ pc' = "content"
  /\ UNCHANGED <<disk, written, config_vars, file_info, total_included_size,
                 all_files, output, prior, last_doc, read_errors, count_vars>>

\* 4) one iteration of the content loop; the read of an included file may raise
ReadContent ==
  /\ pc = "content"
  /\ idx <= Len(all_files)
  /\ LET f == all_files[idx] IN
     \E read_ok \in BOOLEAN :
       /\ ~read_ok => file_info[f].included /\ nerrors < MaxReadErrors
       /\ included_content_lines' =
            append_content(included_content_lines, f, file_info[f], read_ok)
       /\ read_errors' = IF file_info[f].included /\ ~read_ok
                         THEN read_errors \cup {f} ELSE read_errors
       /\ nerrors' = IF read_ok THEN nerrors ELSE nerrors + 1
  /\ idx' = idx + 1
  /\ UNCHANGED <<disk, written, config_vars, file_info, total_included_size,
                 pc, all_files, tree_text, output, prior, last_doc, runs>>

\* 5), 6) the summary and the assembled output
Compose ==
  /\ pc = "content"
  /\ idx > Len(all_files)
  /\ output' = compose_output
  /\ pc' = "open"
  /\ UNCHANGED <<disk, written, config_vars, file_info, total_included_size,
                 all_files, idx, tree_text, included_content_lines, prior,
                 last_doc, read_errors, count_vars>>

\* the file at the output path after n sections of output reached it
written_file(n) == [exists |-> TRUE, n |-> n, doc |-> Prefix(output, n)]

disk_after_write(n) ==
  [p \in DOMAIN disk \cup {OutputPath} |->
     IF p = OutputPath
     THEN [size |-> PrefixLen(output, n), binary |-> FALSE]
     ELSE disk[p]]

\* open(self.output_file, "w"): creates the file or truncates it
OpenOutput ==
  /\ pc = "open"
  /\ written' = written_file(0)
  /\ disk' = disk_after_write(0)
  /\ pc' = "write"
  /\ UNCHANGED <<config_vars, file_info, total_included_size, all_files, idx,
                 tree_text, included_content_lines, output, prior, last_doc,
                 read_errors, count_vars>>

\* open raises (OSError): the exception leaves generate_context_file
OpenFails ==
  /\ pc = "open"
  /\ pc' = "failed"
  /\ UNCHANGED <<disk, written, config_vars, file_info, total_included_size,
                 all_files, idx, tree_text, included_content_lines, output,
                 prior, last_doc, read_errors, count_vars>>

\* out.write(output) and the flush on close: the next section reaches the file
WriteSection ==
  /\ pc = "write"
  /\ written.n < NumSections
  /\ written' = written_file(written.n + 1)
  /\ disk' = disk_after_write(written.n + 1)
  /\ UNCHANGED <<config_vars, file_info, total_included_size, pc, all_files,
                 idx, tree_text, included_content_lines, output, prior,
                 last_doc, read_errors, count_vars>>

\* the write raises (disk full, I/O error): the exception leaves
\* generate_context_file, the file keeps what had reached it
WriteFails ==
  /\ pc = "write"
  /\ written.n < NumSections
  /\ pc' = "failed"
  /\ UNCHANGED <<disk, written, config_vars, file_info, total_included_size,
                 all_files, idx, tree_text, included_content_lines, output,
                 prior, last_doc, read_errors, count_vars>>

\* the with block closes the file; the completion notice is printed
CloseOutput ==
  /\ pc = "write"
  /\ written.n = NumSections
  /\ pc' = "done"
  /\ UNCHANGED <<disk, written, config_vars, file_info, total_included_size,
                 all_files, idx, tree_text, included_content_lines, output,
                 prior, last_doc, read_errors, count_vars>>

\* ---- the environment -------------------------------------------------------
\* the script is started again: a new ProjectContextGenerator with the same
\* arguments (__init__ lines 51-53)
NewProcess ==
  /\ Resting
  /\ file_info # <<>> \/ total_included_size # 0
  /\ file_info' = <<>>
  /\ total_included_size' = 0
  /\ UNCHANGED <<disk, written, config_vars, pc, all_files, idx, tree_text,
                 included_content_lines, output, prior, last_doc, read_errors,
                 count_vars>>

Next ==
  \/ GatherFiles
  \/ DecideStep
  \/ BuildTree
  \/ ReadContent
  \/ Compose
  \/ OpenOutput
  \/ OpenFails
  \/ WriteSection
  \/ WriteFails
  \/ CloseOutput
  \/ NewProcess

Spec == Init /\ [][Next]_vars

\* ---- helpers of the properties ----------------------------------------------
RECURSIVE SumSizes(_, _)
SumSizes(fi, S) ==
  IF S = {} THEN 0
  ELSE LET p == CHOOSE x \in S : TRUE
       IN fi[p].size + SumSizes(fi, S \ {p})

\* sum of size over the records with included == true
SumIncluded(fi) == SumSizes(fi, {p \in DOMAIN fi : fi[p].included})

\* the files decide_inclusion has handled in the current scan
Decided == {all_files[i] : i \in 1..(idx - 1)}

\* a decide_inclusion call is the next step
AtDecide == pc = "decide" /\ idx <= Len(all_files)

\* the current run has just assembled its document
Assembled == pc = "open"

ExclusionReasons ==
  {ReasonIgnored, ReasonBinary, ReasonBudget(max_total_combined_size)}

\* the tree of doc shows file f with the given status suffix
Shown(doc, f, status) ==
  \E i \in 1..Len(doc.tree_text) :
    doc.tree_text[i] = Indent(Len(f)) \o Name(f) \o " " \o status

ShownIncluded(doc, f) == Shown(doc, f, "[Included]")

ShownExcluded(doc, f) ==
  \E r \in ExclusionReasons : Shown(doc, f, "[" \o r \o "]")

\* doc has a "// File: <path>" content block for f
HasBlock(doc, f) ==
  \E i \in 1..Len(doc.content) : doc.content[i].header = "// File: " \o PathStr(f)

\* ---- C1 ----------------------------------------------------------------------
\* C1: after every decide_inclusion step, the sizes of the records with
\* included == true sum to at most max_total_combined_size.
C1_BudgetRespected == SumIncluded(file_info) <= max_total_combined_size

\* a scan in which one file was included and another rejected for the budget
C1_Witness ==
  /\ pc = "decide"
  /\ \E p \in Decided : file_info[p].included
  /\ \E p \in Decided :
       file_info[p].reason = ReasonBudget(max_total_combined_size)

\* ---- C2 ----------------------------------------------------------------------
\* the verdict of the first matching branch, in the order ignore, non-text,
\* budget (strictly greater), included
ExpectedReason(f, size, running) ==
  CASE should_ignore(f) -> ReasonIgnored
    [] ~should_ignore(f) /\ ~is_text_file(f) -> ReasonBinary
    [] ~should_ignore(f) /\ is_text_file(f)
         /\ running + size > max_total_combined_size ->
         ReasonBudget(max_total_combined_size)
    [] OTHER -> ReasonIncluded

C4_AsStated ==
  Assembled =>
    \A f \in AllPaths :
      /\ ShownIncluded(output, f) => HasBlock(output, f)
      /\ ShownExcluded(output, f) => ~HasBlock(output, f)

\* C4 amended: every file enumerated by the scan and shown as [Included] has a
\* content block unless reading its content raised, in which case it has none;
\* no file shown as [Excluded: ...] has one.
C4_BlocksOfReadFiles ==
  Assembled =>
    \A f \in AllPaths :
      /\ ShownIncluded(output, f) /\ f \in Decided
           => (HasBlock(output, f) <=> f \notin read_errors)
      /\ ShownExcluded(output, f) => ~HasBlock(output, f)

\* a document with an [Included] file that has its block, an [Included] file
\* whose read raised, and an [Excluded] file
C4_Witness ==
  /\ Assembled
  /\ \E f \in AllPaths : ShownIncluded(output, f) /\ HasBlock(output, f)
  /\ \E f \in read_errors : ShownIncluded(output, f) /\ ~HasBlock(output, f)
  /\ \E f \in AllPaths : ShownExcluded(output, f)

\* ---- C5 ----------------------------------------------------------------------
\* C5: a run that follows a completed run, with the same configuration and
\* nothing else touching the tree, produces the same document.
C5_Idempotent == pc = "done" /\ last_doc.valid => output = last_doc.doc

\* ---- C6 ----------------------------------------------------------------------
\* C6: the tree holds exactly one line for every record, at any depth, with
\* its status suffix, below a "<name>/ [DIR]" line for each ancestor directory.
C6_EveryRecordInTree ==
  pc \in {"content", "open", "write"} =>
    \A f \in DOMAIN file_info :
      /\ Cardinality({i \in 1..Len(tree_text) :
                        tree_text[i] = Indent(Len(f)) \o Name(f) \o " "
                                         \o StatusStr(file_info[f])}) = 1
      /\ \A k \in 1..(Len(f) - 1) :
           \E i \in 1..Len(tree_text) :
             tree_text[i] = Indent(k) \o f[k] \o "/ [DIR]"

\* ---- C7 ----------------------------------------------------------------------
\* the exclusion rule as documented: the base name is an ignored file name, or
\* the name of an ancestor directory is an ignored directory name
IgnoredByNameOrAncestor(p) ==
  \/ Name(p) \in ignore_files
  \/ \E i \in 1..(Len(p) - 1) : p[i] \in ignore_dirs

\* C7: a file is excluded as ignored exactly when its base name is an ignored
\* file name or one of its ancestor directories has an ignored directory name.
C7_IgnoreIffNameOrAncestor ==
  \A p \in DOMAIN file_info :
    (file_info[p].reason = ReasonIgnored) <=> IgnoredByNameOrAncestor(p)

\* ---- C8 ----------------------------------------------------------------------
\* C8: the file at the configured output path is always excluded with the
\* reason "Excluded: ignored by name/dir".
C8_OutputAlwaysIgnored ==
  OutputPath \in DOMAIN file_info =>
    file_info[OutputPath].reason = ReasonIgnored

\* ---- C9 ----------------------------------------------------------------------
\* C9: the output path holds what it held when the run started, or the
\* complete new document; also after a failed write.
C9_NoPartialOutput ==
  pc \in {"decide", "content", "open", "write", "done", "failed"} =>
    \/ written = prior
    \/ written = [exists |-> TRUE, n |-> NumSections, doc |-> output]

\* ---- C10 ---------------------------------------------------------------------
\* C10: after any number of runs on one instance the running total equals the
\* sum of the sizes of the included records, the summary reports it, and the
\* reported counts add up to the number of records.
C10_TotalMatchesRecords ==
  pc \in {"open", "write"} =>
    /\ total_included_size = SumIncluded(file_info)
    /\ output.summary.total = SumIncluded(file_info)
    /\ output.summary.included + output.summary.excluded
         = Cardinality(DOMAIN file_info)

====
